---- MODULE Spec2Model ----
(***************************************************************************)
(* Model of the indexed write batch internals of                           *)
(* utilities/write_batch_with_index/write_batch_with_index_internal.{h,cc} *)
(*                                                                         *)
(* Part 1: BaseDeltaIterator, the iterator that merges an ordered base     *)
(* iterator with the per-column-family delta iterator of a write batch.    *)
(*                                                                         *)
(* Keys are the integers 1..MaxKey under the natural order (the role of    *)
(* the Comparator).  An iterator position is the key it rests on, or NoKey *)
(* when the iterator is not valid.  A bound pointer is the bound key, or   *)
(* NoKey for nullptr.  The delta holds at most one record per key, as the  *)
(* index of a batch in overwrite mode does.                                *)
(***************************************************************************)
EXTENDS Integers, Sequences, FiniteSets, TLC

\* Size of the key universe.
MaxKey == 3

Keys == 1..MaxKey

\* nullptr for a bound, "not valid" for a position.
NoKey == 0

\* enum Progress
TO_BE_DETERMINED == 0
SEEK_TO_FIRST == 1
SEEK == 2
FORWARD == 3
BACKWARD == 4
SEEK_FOR_PREV == 5
SEEK_TO_LAST == 6

VARIABLES
  base,          \* keys held by the base iterator's source
  delta,         \* key -> record type of the batch entry for the key, or "none"
  lower,         \* lower bound key, NoKey when there is none
  upper,         \* upper bound key, NoKey when there is none
  base_checks,   \* the base iterator knows the bounds and enforces them itself
  has_ro,        \* read_options_ is given and carries the bounds
  bad,           \* keys at which the base iterator's source cannot be read
  it,            \* the BaseDeltaIterator object
  op,            \* the last operation called on it and its argument
  out,           \* pairs emitted by the scan in progress (scan specifications)
  batch,         \* the records of the write batch, in insertion order
  index,         \* the index of the write batch
  wit,           \* a WBWIIteratorImpl over the index of the batch
  got            \* the outcome of the last GetFromBatch

vars ==
  <<base, delta, lower, upper, base_checks, has_ro, bad, it, op, out,
    batch, index, wit, got>>

wbwi == <<batch, index, wit, got>>

config == <<base, delta, lower, upper, base_checks, has_ro, bad>>

-----------------------------------------------------------------------------
(* Ordered sets of keys *)

MinOf(S) == CHOOSE x \in S : \A y \in S : x <= y

MaxOf(S) == CHOOSE x \in S : \A y \in S : x >= y

FirstGE(S, k) == LET T == {x \in S : x >= k} IN IF T = {} THEN NoKey ELSE MinOf(T)

LastLE(S, k) == LET T == {x \in S : x <= k} IN IF T = {} THEN NoKey ELSE MaxOf(T)

\* Comparator::Compare on keys
Compare(a, b) == IF a < b THEN -1 ELSE IF a > b THEN 1 ELSE 0

-----------------------------------------------------------------------------
(* The base iterator: an ordered iterator over committed state.  When it   *)
(* enforces the bounds itself it behaves as an iterator over the keys      *)
(* inside them.  A read that lands on a key of bad fails: the iterator is  *)
(* then not valid and its status is an error until it is positioned again. *)

BaseVisible ==
  IF base_checks
    THEN {k \in base : (lower = NoKey \/ k >= lower) /\ (upper = NoKey \/ k < upper)}
    ELSE base

BaseValue(k) == <<"base", k>>

BaseIterSeekToFirst == FirstGE(BaseVisible, 1)

BaseIterSeekToLast == LastLE(BaseVisible, MaxKey)

BaseIterSeek(k) == FirstGE(BaseVisible, k)

BaseIterSeekForPrev(k) == LastLE(BaseVisible, k)

BaseIterNext(p) == IF p = NoKey THEN NoKey ELSE FirstGE(BaseVisible, p + 1)

BaseIterPrev(p) == IF p = NoKey THEN NoKey ELSE LastLE(BaseVisible, p - 1)

\* Iterator::Valid / status of the base iterator resting at p
BaseIterValid(p) == p # NoKey /\ p \notin bad

BaseIterStatus(p) == IF p \in bad THEN "IOError" ELSE "ok"

\* Iterator::ChecksUpperBound of the base iterator
BaseChecksUpperBound == base_checks

\* Iterator::upper_bound / lower_bound of the base iterator
BaseIterUpperBound == IF base_checks THEN upper ELSE NoKey

BaseIterLowerBound == IF base_checks THEN lower ELSE NoKey

\* read_options_->iterate_upper_bound / iterate_lower_bound, NoKey when
\* read_options_ or the bound is nullptr
iterate_upper_bound == IF has_ro THEN upper ELSE NoKey

iterate_lower_bound == IF has_ro THEN lower ELSE NoKey

-----------------------------------------------------------------------------
(* The delta iterator: WBWIIteratorImpl over the index entries of one      *)
(* column family.                                                          *)

DeltaKeys == {k \in Keys : delta[k] # "none"}

DeltaValue(k) == <<"delta", k>>

\* WBWIIteratorImpl::Entry
Entry(p) == [type |-> delta[p], key |-> p, value |-> DeltaValue(p)]

DeltaIterSeekToFirst == FirstGE(DeltaKeys, 1)

DeltaIterSeekToLast == LastLE(DeltaKeys, MaxKey)

DeltaIterSeek(k) == FirstGE(DeltaKeys, k)

DeltaIterSeekForPrev(k) == LastLE(DeltaKeys, k)

DeltaIterNext(p) == IF p = NoKey THEN NoKey ELSE FirstGE(DeltaKeys, p + 1)

DeltaIterPrev(p) == IF p = NoKey THEN NoKey ELSE LastLE(DeltaKeys, p - 1)

\* WBWIIteratorImpl::status
DeltaIterStatus == "ok"

-----------------------------------------------------------------------------
(* BaseDeltaIterator.  s is the object: progress, current_at_base,         *)
(* equal_keys, status are its fields, bpos and dpos the positions of       *)
(* base_iterator_ and delta_iterator_, stepped_invalid records a Next/Prev *)
(* issued on a sub-iterator that was not valid.                            *)

IsMovingForward(s) == s.progress < BACKWARD

IsMovingBackward(s) == s.progress > FORWARD

base_iterator_upper_bound ==
  IF BaseIterUpperBound = NoKey THEN iterate_upper_bound ELSE BaseIterUpperBound

base_iterator_lower_bound ==
  IF BaseIterLowerBound = NoKey THEN iterate_lower_bound ELSE BaseIterLowerBound

BaseIsWithinBounds(s) ==
  IF IsMovingBackward(s) /\ base_iterator_lower_bound # NoKey
    THEN Compare(s.bpos, base_iterator_lower_bound) >= 0
    ELSE IF IsMovingForward(s) /\ base_iterator_upper_bound # NoKey
      THEN Compare(s.bpos, base_iterator_upper_bound) < 0
      ELSE TRUE

DeltaIsWithinBounds(s) ==
  IF IsMovingBackward(s) /\ iterate_lower_bound # NoKey
    THEN Compare(s.dpos, iterate_lower_bound) >= 0
    ELSE IF IsMovingForward(s) /\ iterate_upper_bound # NoKey
      THEN Compare(s.dpos, iterate_upper_bound) < 0
      ELSE TRUE

BaseValid(s) ==
  BaseIterValid(s.bpos)
    /\ (IF BaseChecksUpperBound THEN TRUE ELSE BaseIsWithinBounds(s))

DeltaValid(s) == s.dpos # NoKey /\ DeltaIsWithinBounds(s)

Valid(s) ==
  IF s.status = "ok"
    THEN (IF s.current_at_base THEN BaseValid(s) ELSE DeltaValid(s))
    ELSE FALSE

key(s) == IF s.current_at_base THEN s.bpos ELSE Entry(s.dpos).key

value(s) == IF s.current_at_base THEN BaseValue(s.bpos) ELSE Entry(s.dpos).value

\* Mutant: the base iterator's status is not consulted.
status_IgnoreBase(s) == IF s.status # "ok" THEN s.status ELSE DeltaIterStatus

status(s) ==
  IF s.status # "ok" THEN s.status
  ELSE IF BaseIterStatus(s.bpos) # "ok" THEN BaseIterStatus(s.bpos)
  ELSE DeltaIterStatus

\* Mutant: the delta is stepped with Next whatever the direction of travel.
AdvanceDelta_AlwaysNext(s) ==
  [s EXCEPT !.dpos = DeltaIterNext(s.dpos),
            !.stepped_invalid = s.stepped_invalid \/ s.dpos = NoKey]

AdvanceDelta(s) ==
  [s EXCEPT !.dpos = IF IsMovingForward(s) THEN DeltaIterNext(s.dpos)
                                           ELSE DeltaIterPrev(s.dpos),
            !.stepped_invalid = s.stepped_invalid \/ s.dpos = NoKey]

AdvanceBase(s) ==
  [s EXCEPT !.bpos = IF IsMovingForward(s) THEN BaseIterNext(s.bpos)
                                           ELSE BaseIterPrev(s.bpos),
            !.stepped_invalid = s.stepped_invalid \/ ~BaseIterValid(s.bpos)]

\* Mutant: a Merge record is stepped over as a deletion is.
IsDelete_OrMerge(t) ==
  t = "kDeleteRecord" \/ t = "kSingleDeleteRecord" \/ t = "kMergeRecord"

IsDelete(t) == t = "kDeleteRecord" \/ t = "kSingleDeleteRecord"

\* Mutant: the comparison ignores the direction of travel.
DirectedCompare_Undirected(s) == Compare(Entry(s.dpos).key, s.bpos)

\* UpdateCurrent: the comparison of the two current keys, in the direction
\* of travel.
DirectedCompare(s) ==
  (IF IsMovingForward(s) THEN 1 ELSE -1) * Compare(Entry(s.dpos).key, s.bpos)

\* Mutant: a deletion is stepped over without the base entry it deletes.
SkipDeleted_DeltaOnly(s) == AdvanceDelta(s)

\* UpdateCurrent: the delta entry is not ahead of the base and is a
\* deletion; step over it, and over the base entry it deletes.
SkipDeleted(s) ==
  IF s.equal_keys THEN AdvanceBase(AdvanceDelta(s)) ELSE AdvanceDelta(s)

\* UpdateCurrent: how an iteration of the loop ends, by return or by going
\* round again.
Return(s) == [st |-> s, returned |-> TRUE]

Continue(s) == [st |-> s, returned |-> FALSE]

\* UpdateCurrent: one iteration of the loop.
UpdateIteration(s) ==
  IF ~DeltaValid(s) /\ DeltaIterStatus # "ok"
    THEN Return([s EXCEPT !.current_at_base = FALSE])
    ELSE
      LET s1 == [s EXCEPT !.equal_keys = FALSE] IN
      IF ~BaseValid(s1)
        THEN IF BaseIterStatus(s1.bpos) # "ok"
               THEN Return([s1 EXCEPT !.current_at_base = TRUE])
             ELSE IF ~DeltaValid(s1)
               THEN Return(s1)
             ELSE IF iterate_upper_bound # NoKey
                     /\ Compare(Entry(s1.dpos).key, iterate_upper_bound) >= 0
               THEN Return(s1)
             ELSE IF IsDelete(Entry(s1.dpos).type)
               THEN Continue(AdvanceDelta(s1))
             ELSE Return([s1 EXCEPT !.current_at_base = FALSE])
      ELSE IF ~DeltaValid(s1)
        THEN Return([s1 EXCEPT !.current_at_base = TRUE])
      ELSE
        LET compare == DirectedCompare(s1)
            s2 == [s1 EXCEPT !.equal_keys = (compare = 0)]
        IN
        IF compare <= 0
          THEN IF ~IsDelete(Entry(s2.dpos).type)
                 THEN Return([s2 EXCEPT !.current_at_base = FALSE])
                 ELSE Continue(SkipDeleted(s2))
          ELSE Return([s1 EXCEPT !.current_at_base = TRUE])

\* UpdateCurrent: the loop.
RECURSIVE UpdateLoop(_)
UpdateLoop(s) ==
  LET r == UpdateIteration(s)
  IN IF r.returned THEN r.st ELSE UpdateLoop(r.st)

\* Mutant: status_ is not reset on entry.
UpdateCurrent_KeepStatus(s) == UpdateLoop(s)

UpdateCurrent(s) == UpdateLoop([s EXCEPT !.status = "ok"])

\* BaseDeltaIterator::Invalidate(st).
Invalidate(s, st) == [s EXCEPT !.status = st]

Advance(s) ==
  UpdateCurrent(IF s.equal_keys
                  THEN AdvanceDelta(AdvanceBase(s))
                  ELSE IF s.current_at_base THEN AdvanceBase(s) ELSE AdvanceDelta(s))

SeekToFirst(s) ==
  UpdateCurrent([s EXCEPT !.progress = SEEK_TO_FIRST,
                          !.bpos = BaseIterSeekToFirst,
                          !.dpos = DeltaIterSeekToFirst])

\* Mutant: a step on an iterator that is not valid returns without a trace.
InvalidStep_Silent(s) == s

\* Next, Prev: the early return of a step on an iterator that is not valid.
InvalidStep(s) == [s EXCEPT !.status = "NotSupported"]

\* Mutant: the upper bound is taken as inclusive (no Prev after the Seek).
SeekToLast_Inclusive(s) ==
  LET bseek == BaseIterSeek(base_iterator_upper_bound)
      b == IF base_iterator_upper_bound # NoKey /\ ~BaseChecksUpperBound
             THEN (IF bseek # NoKey THEN bseek ELSE BaseIterSeekToLast)
             ELSE BaseIterSeekToLast
      dseek == DeltaIterSeek(iterate_upper_bound)
      d == IF iterate_upper_bound # NoKey
             THEN (IF dseek # NoKey THEN dseek ELSE DeltaIterSeekToLast)
             ELSE DeltaIterSeekToLast
  IN UpdateCurrent([s EXCEPT !.progress = SEEK_TO_LAST, !.bpos = b, !.dpos = d])

SeekToLast(s) ==
  LET bseek == BaseIterSeek(base_iterator_upper_bound)
      b == IF base_iterator_upper_bound # NoKey /\ ~BaseChecksUpperBound
             THEN (IF bseek # NoKey THEN BaseIterPrev(bseek) ELSE BaseIterSeekToLast)
             ELSE BaseIterSeekToLast
      dseek == DeltaIterSeek(iterate_upper_bound)
      d == IF iterate_upper_bound # NoKey
             THEN (IF dseek # NoKey THEN DeltaIterPrev(dseek) ELSE DeltaIterSeekToLast)
             ELSE DeltaIterSeekToLast
  IN UpdateCurrent([s EXCEPT !.progress = SEEK_TO_LAST, !.bpos = b, !.dpos = d])

\* Mutant: the delta iterator is positioned with SeekForPrev.
Seek_DeltaForPrev(s, k) ==
  UpdateCurrent([s EXCEPT !.progress = SEEK,
                          !.bpos = BaseIterSeek(k),
                          !.dpos = DeltaIterSeekForPrev(k)])

\* Mutant: the delta iterator is left where it was.
Seek_KeepDelta(s, k) ==
  UpdateCurrent([s EXCEPT !.progress = SEEK,
                          !.bpos = BaseIterSeek(k)])

Seek(s, k) ==
  UpdateCurrent([s EXCEPT !.progress = SEEK,
                          !.bpos = BaseIterSeek(k),
                          !.dpos = DeltaIterSeek(k)])

SeekForPrev(s, k) ==
  UpdateCurrent([s EXCEPT !.progress = SEEK_FOR_PREV,
                          !.bpos = BaseIterSeekForPrev(k),
                          !.dpos = DeltaIterSeekForPrev(k)])

NextFlip(s) ==
  LET s0 == [s EXCEPT !.equal_keys = FALSE] IN
  IF ~BaseValid(s0)
    THEN IF s0.progress # SEEK_TO_LAST
           THEN [s0 EXCEPT !.bpos = BaseIterSeekToFirst]
           ELSE s0
  ELSE IF ~DeltaValid(s0)
    THEN IF s0.progress # SEEK_TO_LAST
           THEN [s0 EXCEPT !.dpos = DeltaIterSeekToFirst]
           ELSE s0
  ELSE
    LET s1 == [s0 EXCEPT !.progress = FORWARD]
        s2 == IF s1.current_at_base THEN AdvanceDelta(s1) ELSE AdvanceBase(s1)
    IN [s2 EXCEPT !.equal_keys =
            DeltaValid(s2) /\ BaseValid(s2) /\ Entry(s2.dpos).key = s2.bpos]

Next(s) ==
  IF ~Valid(s)
    THEN InvalidStep(s)
    ELSE LET s1 == IF IsMovingBackward(s) THEN NextFlip(s) ELSE s
         IN Advance([s1 EXCEPT !.progress = FORWARD])

PrevFlip(s) ==
  LET s0 == [s EXCEPT !.equal_keys = FALSE]
      s1 == IF ~BaseValid(s0)
              THEN IF s0.progress # SEEK_TO_FIRST
                     THEN [s0 EXCEPT !.bpos = BaseIterSeekToLast]
                     ELSE s0
            ELSE IF ~DeltaValid(s0)
              THEN IF s0.progress # SEEK_TO_FIRST
                     THEN [s0 EXCEPT !.dpos = DeltaIterSeekToLast]
                     ELSE s0
            ELSE
              LET t == [s0 EXCEPT !.progress = BACKWARD]
              IN IF t.current_at_base THEN AdvanceDelta(t) ELSE AdvanceBase(t)
  IN IF DeltaValid(s1) /\ BaseValid(s1) /\ Entry(s1.dpos).key = s1.bpos
       THEN [s1 EXCEPT !.equal_keys = TRUE]
       ELSE s1

Prev(s) ==
  IF ~Valid(s)
    THEN InvalidStep(s)
    ELSE LET s1 == IF IsMovingForward(s) THEN PrevFlip(s) ELSE s
         IN Advance([s1 EXCEPT !.progress = BACKWARD])

\* AssertInvariants: TRUE when every assertion it evaluates holds.  The call
\* to it in UpdateCurrent follows a loop that is left by return only, so no
\* operation evaluates it.
AssertInvariants(s) ==
  LET base_not_ok == BaseIterStatus(s.bpos) # "ok"
      delta_not_ok == DeltaIterStatus # "ok"
      compare == Compare(Entry(s.dpos).key, s.bpos)
  IN
  IF base_not_ok \/ delta_not_ok
    THEN /\ base_not_ok => ~BaseIterValid(s.bpos)
         /\ delta_not_ok => s.dpos = NoKey
         /\ ~Valid(s)
         /\ status(s) # "ok"
  ELSE IF ~Valid(s) THEN TRUE
  ELSE IF ~BaseValid(s) THEN ~s.current_at_base /\ s.dpos # NoKey
  ELSE IF ~DeltaValid(s) THEN s.current_at_base /\ BaseIterValid(s.bpos)
  ELSE
    /\ Entry(s.dpos).type # "kMergeRecord" /\ Entry(s.dpos).type # "kLogDataRecord"
    /\ IF IsMovingForward(s)
         THEN /\ ~s.current_at_base \/ compare < 0
              /\ s.current_at_base /\ compare >= 0
         ELSE /\ ~s.current_at_base \/ compare > 0
              /\ s.current_at_base /\ compare <= 0
    /\ (s.equal_keys \/ compare # 0) /\ (~s.equal_keys \/ compare = 0)

\* The object as the constructor leaves it, over unpositioned sub-iterators.
NewIterator ==
  [progress |-> TO_BE_DETERMINED, current_at_base |-> TRUE, equal_keys |-> FALSE,
   status |-> "ok", bpos |-> NoKey, dpos |-> NoKey, stepped_invalid |-> FALSE]

-----------------------------------------------------------------------------
(* Part 2: the index of a write batch, its per-column-family iterator      *)
(* WBWIIteratorImpl, and the lookup GetFromBatch.                          *)
(*                                                                         *)
(* A batch b is [data, index].  b.data is the sequence of its records in   *)
(* insertion order; the offset of a record is its place in the sequence    *)
(* (offsets of real records are never 0: the batch data begins with a      *)
(* header).  A record is [cf, key, type]; the value it carries is named    *)
(* after its offset, so that every value and operand of a batch is         *)
(* distinct.  b.index is the skip list: one entry per record, kept sorted  *)
(* by WriteBatchEntryComparator; a cursor into it is a place in the        *)
(* sorted sequence, 0 when the cursor is not valid.                        *)

\* Largest number of records in a batch.
MaxBatch == 3

\* Largest column family id in use.
MaxCF == 1

CFs == 0..MaxCF

\* The column family ids are uint32_t values.  kMaxUint32 is the largest
\* value of the type, one above the ids in use, and UInt32 the arithmetic of
\* the type: a sum past the largest value wraps around to 0.
kMaxUint32 == MaxCF + 1

UInt32(x) == x % (kMaxUint32 + 1)

\* port::kMaxSizet: larger than every offset.
kMaxSizet == MaxBatch + 2

RecordTypes ==
  {"kPutRecord", "kMergeRecord", "kDeleteRecord", "kSingleDeleteRecord",
   "kDeleteRangeRecord"}

\* Slice value of the record at offset o.
ValueAt(o) == <<o>>

\* WriteBatchIndexEntry of the record at offset o of b.
RealEntry(b, o) ==
  [offset |-> o, column_family |-> b.data[o].cf, is_min_in_cf |-> FALSE,
   search_key |-> NoKey]

\* WriteBatchIndexEntry, the dummy constructor: a search key.
SearchEntry(search_key, column_family, is_forward_direction, is_seek_to_first) ==
  [offset |-> IF is_forward_direction THEN 0 ELSE kMaxSizet,
   column_family |-> column_family,
   is_min_in_cf |-> is_seek_to_first,
   search_key |-> search_key]

\* The comparators of the column families: odd ids order their keys in
\* reverse, the others (and the default comparator) in the natural order.
CompareKey(column_family, key1, key2) ==
  IF column_family % 2 = 1 THEN Compare(key2, key1) ELSE Compare(key1, key2)

\* The key an entry stands for: the search key, or the key read from the
\* batch data.
EntryKey(b, e) ==
  IF e.search_key = NoKey THEN b.data[e.offset].key ELSE e.search_key

\* Mutant: ties between equal keys are broken newest first.
CompareEntries_NewestFirst(b, entry1, entry2) ==
  IF entry1.column_family > entry2.column_family THEN 1
  ELSE IF entry1.column_family < entry2.column_family THEN -1
  ELSE IF entry1.is_min_in_cf THEN -1
  ELSE IF entry2.is_min_in_cf THEN 1
  ELSE
    LET cmp == CompareKey(entry1.column_family,
                          EntryKey(b, entry1), EntryKey(b, entry2))
    IN IF cmp # 0 THEN cmp
       ELSE IF entry1.offset > entry2.offset THEN -1
       ELSE IF entry1.offset < entry2.offset THEN 1
       ELSE 0

\* WriteBatchEntryComparator::operator()
CompareEntries(b, entry1, entry2) ==
  IF entry1.column_family > entry2.column_family THEN 1
  ELSE IF entry1.column_family < entry2.column_family THEN -1
  ELSE IF entry1.is_min_in_cf THEN -1
  ELSE IF entry2.is_min_in_cf THEN 1
  ELSE
    LET cmp == CompareKey(entry1.column_family,
                          EntryKey(b, entry1), EntryKey(b, entry2))
    IN IF cmp # 0 THEN cmp
       ELSE IF entry1.offset > entry2.offset THEN 1
       ELSE IF entry1.offset < entry2.offset THEN -1
       ELSE 0

\* The skip list: an entry is inserted before the first entry that is not
\* smaller than it.
SkipListInsert(b, idx, e) ==
  LET n == Cardinality({i \in 1..Len(idx) : CompareEntries(b, idx[i], e) < 0})
  IN SubSeq(idx, 1, n) \o <<e>> \o SubSeq(idx, n + 1, Len(idx))

\* The batch after the record r has been written and indexed.
WriteAndIndex(b, r) ==
  LET b1 == [b EXCEPT !.data = Append(b.data, r)]
  IN [b1 EXCEPT !.index = SkipListInsert(b1, b.index, RealEntry(b1, Len(b1.data)))]

\* The batch that results from writing the records of q in order.
RECURSIVE BatchOf(_)
BatchOf(q) ==
  IF q = <<>> THEN [data |-> <<>>, index |-> <<>>]
  ELSE WriteAndIndex(BatchOf(SubSeq(q, 1, Len(q) - 1)), q[Len(q)])

Index(b) == b.index

\* Skip list iterator.
SkipListSeek(b, target) ==
  LET idx == Index(b)
      T == {i \in 1..Len(idx) : CompareEntries(b, idx[i], target) >= 0}
  IN IF T = {} THEN 0 ELSE MinOf(T)

SkipListSeekForPrev(b, target) ==
  LET idx == Index(b)
      T == {i \in 1..Len(idx) : CompareEntries(b, idx[i], target) <= 0}
  IN IF T = {} THEN 0 ELSE MaxOf(T)

SkipListSeekToLast(b) == Len(Index(b))

SkipListNext(b, pos) == IF pos = 0 \/ pos = Len(Index(b)) THEN 0 ELSE pos + 1

SkipListPrev(b, pos) == IF pos = 0 THEN 0 ELSE pos - 1

\* WBWIIteratorImpl.  w is the object: column_family_id and the place pos of
\* skip_list_iter_.
NewWBWIIterator(column_family_id) == [column_family_id |-> column_family_id, pos |-> 0]

\* Mutant: the column family of the entry under the cursor is not looked at.
WBWIValid_AnyCF(b, w) == w.pos # 0

WBWIValid(b, w) ==
  IF w.pos = 0 THEN FALSE
  ELSE Index(b)[w.pos].column_family = w.column_family_id

WBWISeekToFirst(b, w) ==
  [w EXCEPT !.pos =
     SkipListSeek(b, SearchEntry(NoKey, w.column_family_id, TRUE, TRUE))]

WBWISeekToLast(b, w) ==
  LET p == SkipListSeek(b, SearchEntry(NoKey, UInt32(w.column_family_id + 1),
                                       TRUE, TRUE))
  IN [w EXCEPT !.pos = IF p = 0 THEN SkipListSeekToLast(b) ELSE SkipListPrev(b, p)]

\* Mutant: the search key of Seek is built as that of SeekForPrev.
WBWISeek_MaxOffset(b, w, k) ==
  [w EXCEPT !.pos =
     SkipListSeek(b, SearchEntry(k, w.column_family_id, FALSE, FALSE))]

WBWISeek(b, w, k) ==
  [w EXCEPT !.pos =
     SkipListSeek(b, SearchEntry(k, w.column_family_id, TRUE, FALSE))]

WBWISeekForPrev(b, w, k) ==
  [w EXCEPT !.pos =
     SkipListSeekForPrev(b, SearchEntry(k, w.column_family_id, FALSE, FALSE))]

WBWINext(b, w) == [w EXCEPT !.pos = SkipListNext(b, w.pos)]

WBWIPrev(b, w) == [w EXCEPT !.pos = SkipListPrev(b, w.pos)]

\* WBWIIteratorImpl::GetRawEntry
GetRawEntry(b, w) == Index(b)[w.pos]

\* WBWIIteratorImpl::Entry
WBWIEntry(b, w) ==
  LET o == GetRawEntry(b, w).offset
  IN [type |-> b.data[o].type, key |-> b.data[o].key, value |-> ValueAt(o)]

MatchesKey(b, w, cf_id, k) ==
  IF WBWIValid(b, w) THEN CompareKey(cf_id, k, WBWIEntry(b, w).key) = 0 ELSE FALSE

\* MergeContext: the operands in the order they were pushed, and
\* GetOperands, which hands them out oldest first when they were pushed
\* newest first.
PushOperand(merge_context, operand) == Append(merge_context, operand)

GetOperands(merge_context) ==
  [i \in 1..Len(merge_context) |-> merge_context[Len(merge_context) + 1 - i]]

RECURSIVE Concat(_)
Concat(q) == IF q = <<>> THEN <<>> ELSE Head(q) \o Concat(Tail(q))

\* The merge operator of the column family: "ok" appends the operands, in
\* the order given, to the existing value (nothing when there is none);
\* "fails" reports failure; "none" is a column family without one.
MergeOperators == {"ok", "fails", "none"}

\* The caller's *value before it has been assigned.
Unassigned == <<0>>

\* nullptr as the existing value of a merge.
NoValue == <<>>

\* WriteBatchWithIndexInternal::MergeKey with a column family given.
MergeKey(merge_operator, existing, merge_context, result) ==
  IF merge_operator = "none"
    THEN [status |-> "InvalidArgument", value |-> result]
  ELSE IF merge_operator = "fails"
    THEN [status |-> "Corruption", value |-> result]
  ELSE [status |-> "ok",
        value |-> existing \o Concat(GetOperands(merge_context))]

\* GetFromBatch: step forward from w over the entries that match k.
RECURSIVE SkipMatching(_, _, _)
SkipMatching(b, w, k) ==
  IF WBWIValid(b, w) /\ MatchesKey(b, w, w.column_family_id, k)
    THEN SkipMatching(b, WBWINext(b, w), k)
    ELSE w

\* Mutant: the scan starts at the oldest entry of k.
SeekToLatest_Oldest(b, cf_id, k) == WBWISeek(b, NewWBWIIterator(cf_id), k)

\* GetFromBatch: the cursor set just past the entries of k, then one back.
SeekToLatest(b, cf_id, k) ==
  LET w == SkipMatching(b, WBWISeek(b, NewWBWIIterator(cf_id), k), k)
  IN IF ~WBWIValid(b, w) THEN WBWISeekToLast(b, w) ELSE WBWIPrev(b, w)

\* Mutant: a Merge record does not stop the scan in overwrite mode.
StopsAtMerge_Never(g, overwrite_key) == FALSE

\* GetFromBatch: the break after a Merge record in overwrite mode.
StopsAtMerge(g, overwrite_key) == g.result = "kMergeInProgress" /\ overwrite_key

\* Mutant: a Merge record's operand is not pushed.
ScanEntry_DropOperand(g, entry) ==
  IF entry.type = "kPutRecord"
    THEN [g EXCEPT !.result = "kFound", !.entry_value = entry.value]
  ELSE IF entry.type = "kMergeRecord"
    THEN [g EXCEPT !.result = "kMergeInProgress"]
  ELSE IF entry.type \in {"kDeleteRecord", "kSingleDeleteRecord"}
    THEN [g EXCEPT !.result = "kDeleted"]
  ELSE IF entry.type \in {"kLogDataRecord", "kXIDRecord"}
    THEN g
  ELSE [g EXCEPT !.result = "kError", !.status = "Corruption"]

\* GetFromBatch: the switch on the type of one entry of the scan.
\* Mutant: a record of an unexpected kind is passed over, as LogData is.
ScanEntry_SkipUnexpected(g, entry) ==
  IF entry.type = "kPutRecord"
    THEN [g EXCEPT !.result = "kFound", !.entry_value = entry.value]
  ELSE IF entry.type = "kMergeRecord"
    THEN [g EXCEPT !.result = "kMergeInProgress",
                   !.merge_context = PushOperand(g.merge_context, entry.value)]
  ELSE IF entry.type \in {"kDeleteRecord", "kSingleDeleteRecord"}
    THEN [g EXCEPT !.result = "kDeleted"]
  ELSE g

ScanEntry(g, entry) ==
  IF entry.type = "kPutRecord"
    THEN [g EXCEPT !.result = "kFound", !.entry_value = entry.value]
  ELSE IF entry.type = "kMergeRecord"
    THEN [g EXCEPT !.result = "kMergeInProgress",
                   !.merge_context = PushOperand(g.merge_context, entry.value)]
  ELSE IF entry.type \in {"kDeleteRecord", "kSingleDeleteRecord"}
    THEN [g EXCEPT !.result = "kDeleted"]
  ELSE IF entry.type \in {"kLogDataRecord", "kXIDRecord"}
    THEN g
  ELSE [g EXCEPT !.result = "kError", !.status = "Corruption"]

\* GetFromBatch: the scan, newest first, from the cursor w.  g.scanned
\* collects the offsets of the entries the switch has looked at.
RECURSIVE ScanBack(_, _, _, _, _, _)
ScanBack(b, w, cf_id, k, overwrite_key, g) ==
  IF ~WBWIValid(b, w) THEN g
  ELSE IF ~MatchesKey(b, w, cf_id, k) THEN g
  ELSE
    LET g1 == ScanEntry([g EXCEPT !.scanned =
                             Append(g.scanned, GetRawEntry(b, w).offset)],
                        WBWIEntry(b, w))
    IN IF g1.result \in {"kFound", "kDeleted", "kError"} THEN g1
       ELSE IF StopsAtMerge(g1, overwrite_key) THEN g1
       ELSE ScanBack(b, WBWIPrev(b, w), cf_id, k, overwrite_key, g1)

\* GetFromBatch: the existing value handed to MergeKey.
ExistingValue(g) == IF g.result = "kFound" THEN g.entry_value ELSE NoValue

\* Mutant: a failed merge leaves the result of the scan.
MergeOutcome_KeepResult(g, m) ==
  [g EXCEPT !.status = m.status, !.value = m.value,
            !.merge_calls = g.merge_calls + 1,
            !.result = IF m.status = "ok" THEN "kFound" ELSE g.result]

\* GetFromBatch: result and status after MergeKey has returned m.
MergeOutcome(g, m) ==
  [g EXCEPT !.status = m.status, !.value = m.value,
            !.merge_calls = g.merge_calls + 1,
            !.result = IF m.status = "ok" THEN "kFound" ELSE "kError"]

\* Mutant: with nothing to merge the value is assigned after a deletion too.
PostProcess_AssignAlways(g, merge_operator) ==
  IF g.status = "ok" /\ g.result \in {"kFound", "kDeleted"}
    THEN IF Len(g.merge_context) > 0
           THEN MergeOutcome(g, MergeKey(merge_operator, ExistingValue(g),
                                         g.merge_context, g.value))
           ELSE [g EXCEPT !.value = g.entry_value]
    ELSE g

\* GetFromBatch: after the scan, merge if necessary.
PostProcess(g, merge_operator) ==
  IF g.status = "ok" /\ g.result \in {"kFound", "kDeleted"}
    THEN IF Len(g.merge_context) > 0
           THEN MergeOutcome(g, MergeKey(merge_operator, ExistingValue(g),
                                         g.merge_context, g.value))
           ELSE IF g.result = "kFound"
             THEN [g EXCEPT !.value = g.entry_value]
             ELSE g
    ELSE g

\* WriteBatchWithIndexInternal::GetFromBatch on the batch b for the key k of
\* the column family cf_id, with the caller's merge context and *value.
\* The outcome is the returned Result, *s as status, the merge context and
\* *value as the call leaves them.
GetFromBatch(b, cf_id, k, merge_context, val, overwrite_key, merge_operator) ==
  LET g0 == [result |-> "kNotFound", status |-> "ok",
             merge_context |-> merge_context, value |-> val,
             entry_value |-> NoValue, scanned |-> <<>>, merge_calls |-> 0]
  IN PostProcess(ScanBack(b, SeekToLatest(b, cf_id, k), cf_id, k,
                          overwrite_key, g0),
                 merge_operator)

-----------------------------------------------------------------------------
(* ReadableWriteBatch::GetEntryFromDataOffset.  rep is the buffer rep_ of  *)
(* the batch, one cell for each place a record can be read from: the tag   *)
(* found there and whether ReadRecordFromWriteBatch can read the record.   *)
(* data_offset counts from 0, as the offsets into rep_ do.                 *)

\* Largest size of a buffer handed to the decoder.
MaxRep == 2

\* The tags the switch names, and some it does not name.
NamedTags ==
  {"kTypeColumnFamilyValue", "kTypeValue",
   "kTypeColumnFamilyDeletion", "kTypeDeletion",
   "kTypeColumnFamilySingleDeletion", "kTypeSingleDeletion",
   "kTypeColumnFamilyRangeDeletion", "kTypeRangeDeletion",
   "kTypeColumnFamilyMerge", "kTypeMerge",
   "kTypeLogData",
   "kTypeNoop", "kTypeBeginPrepareXID", "kTypeBeginPersistedPrepareXID",
   "kTypeBeginUnprepareXID", "kTypeEndPrepareXID", "kTypeCommitXID",
   "kTypeRollbackXID"}

OtherTags == {"kTypeBlobIndex", "kTypeColumnFamilyBlobIndex"}

Tags == NamedTags \cup OtherTags

Cells == [tag : Tags, readable : BOOLEAN]

\* The output parameters, and *type before it is assigned.
Outputs == {"type", "Key", "value", "blob", "xid"}

TypeUnassigned == "unassigned"

GetDataSize(rep) == Len(rep)

\* ReadRecordFromWriteBatch: the tag of the record, or the failure to read.
ReadRecordFromWriteBatch(rep, data_offset) ==
  LET c == rep[data_offset + 1]
  IN [status |-> IF c.readable THEN "ok" ELSE "Corruption", tag |-> c.tag]

\* Mutant: the Noop tag is put with the log data tag.
TagSwitch_NoopIsLogData(tag) ==
  CASE tag \in {"kTypeColumnFamilyValue", "kTypeValue"} ->
         [status |-> "ok", type |-> "kPutRecord"]
    [] tag \in {"kTypeColumnFamilyDeletion", "kTypeDeletion"} ->
         [status |-> "ok", type |-> "kDeleteRecord"]
    [] tag \in {"kTypeColumnFamilySingleDeletion", "kTypeSingleDeletion"} ->
         [status |-> "ok", type |-> "kSingleDeleteRecord"]
    [] tag \in {"kTypeColumnFamilyRangeDeletion", "kTypeRangeDeletion"} ->
         [status |-> "ok", type |-> "kDeleteRangeRecord"]
    [] tag \in {"kTypeColumnFamilyMerge", "kTypeMerge"} ->
         [status |-> "ok", type |-> "kMergeRecord"]
    [] tag \in {"kTypeLogData", "kTypeNoop"} ->
         [status |-> "ok", type |-> "kLogDataRecord"]
    [] tag \in {"kTypeBeginPrepareXID",
                "kTypeBeginPersistedPrepareXID", "kTypeBeginUnprepareXID",
                "kTypeEndPrepareXID", "kTypeCommitXID", "kTypeRollbackXID"} ->
         [status |-> "ok", type |-> "kXIDRecord"]
    [] OTHER ->
         [status |-> "Corruption", type |-> TypeUnassigned]

\* The switch on the tag.
TagSwitch(tag) ==
  CASE tag \in {"kTypeColumnFamilyValue", "kTypeValue"} ->
         [status |-> "ok", type |-> "kPutRecord"]
    [] tag \in {"kTypeColumnFamilyDeletion", "kTypeDeletion"} ->
         [status |-> "ok", type |-> "kDeleteRecord"]
    [] tag \in {"kTypeColumnFamilySingleDeletion", "kTypeSingleDeletion"} ->
         [status |-> "ok", type |-> "kSingleDeleteRecord"]
    [] tag \in {"kTypeColumnFamilyRangeDeletion", "kTypeRangeDeletion"} ->
         [status |-> "ok", type |-> "kDeleteRangeRecord"]
    [] tag \in {"kTypeColumnFamilyMerge", "kTypeMerge"} ->
         [status |-> "ok", type |-> "kMergeRecord"]
    [] tag = "kTypeLogData" ->
         [status |-> "ok", type |-> "kLogDataRecord"]
    [] tag \in {"kTypeNoop", "kTypeBeginPrepareXID",
                "kTypeBeginPersistedPrepareXID", "kTypeBeginUnprepareXID",
                "kTypeEndPrepareXID", "kTypeCommitXID", "kTypeRollbackXID"} ->
         [status |-> "ok", type |-> "kXIDRecord"]
    [] OTHER ->
         [status |-> "Corruption", type |-> TypeUnassigned]

\* The outcome of a call that reads no record.
NotDecoded(st) == [status |-> st, type |-> TypeUnassigned, read |-> FALSE]

\* Mutant: the offset is looked at before the output parameters, and the
\* end of the buffer is an offset like those past it.
GetEntryFromDataOffset_OffsetFirst(rep, data_offset, nulls) ==
  IF data_offset >= GetDataSize(rep) THEN NotDecoded("InvalidArgument")
  ELSE IF nulls # {} THEN NotDecoded("InvalidArgument")
  ELSE LET s == ReadRecordFromWriteBatch(rep, data_offset)
       IN IF s.status # "ok"
            THEN [status |-> s.status, type |-> TypeUnassigned, read |-> TRUE]
            ELSE [status |-> TagSwitch(s.tag).status,
                  type |-> TagSwitch(s.tag).type, read |-> TRUE]

\* nulls: the output parameters that are null.  read: whether a record was
\* read from the buffer.
GetEntryFromDataOffset(rep, data_offset, nulls) ==
  IF nulls # {} THEN NotDecoded("InvalidArgument")
  ELSE IF data_offset = GetDataSize(rep) THEN NotDecoded("NotFound")
  ELSE IF data_offset > GetDataSize(rep) THEN NotDecoded("InvalidArgument")
  ELSE LET s == ReadRecordFromWriteBatch(rep, data_offset)
       IN IF s.status # "ok"
            THEN [status |-> s.status, type |-> TypeUnassigned, read |-> TRUE]
            ELSE [status |-> TagSwitch(s.tag).status,
                  type |-> TagSwitch(s.tag).type, read |-> TRUE]

-----------------------------------------------------------------------------
(* Specification: any base, any delta of Put/Delete/SingleDelete records,  *)
(* no bounds, any sequence of operations.                                  *)

\* WriteType of the records the delta holds; delta[k] = "none" is the absence
\* of a record for k.
DeltaTypes == {"kPutRecord", "kDeleteRecord", "kSingleDeleteRecord"}

\* got before any lookup.
NoOutcome == [result |-> "none"]

\* The write batch with its index.
WB == [data |-> batch, index |-> index]

InitBatch ==
  /\ batch = <<>>
  /\ index = <<>>
  /\ wit = NewWBWIIterator(0)
  /\ got = NoOutcome

InitIter ==
  /\ it = NewIterator
  /\ op = <<"new", NoKey>>
  /\ out = <<>>
  /\ InitBatch

Init ==
  /\ base \in SUBSET Keys
  /\ delta \in [Keys -> DeltaTypes \cup {"none"}]
  /\ lower = NoKey
  /\ upper = NoKey
  /\ base_checks \in BOOLEAN
  /\ has_ro \in BOOLEAN
  /\ bad = {}
  /\ InitIter

DoSeekToFirst ==
  /\ it' = SeekToFirst(it)
  /\ op' = <<"SeekToFirst", NoKey>>
  /\ UNCHANGED <<config, out, wbwi>>

DoSeekToLast ==
  /\ it' = SeekToLast(it)
  /\ op' = <<"SeekToLast", NoKey>>
  /\ UNCHANGED <<config, out, wbwi>>

DoSeek ==
  \E k \in Keys :
    /\ it' = Seek(it, k)
    /\ op' = <<"Seek", k>>
    /\ UNCHANGED <<config, out, wbwi>>

DoSeekForPrev ==
  \E k \in Keys :
    /\ it' = SeekForPrev(it, k)
    /\ op' = <<"SeekForPrev", k>>
    /\ UNCHANGED <<config, out, wbwi>>

DoNext ==
  /\ it' = Next(it)
  /\ op' = <<"Next", NoKey>>
  /\ UNCHANGED <<config, out, wbwi>>

DoPrev ==
  /\ it' = Prev(it)
  /\ op' = <<"Prev", NoKey>>
  /\ UNCHANGED <<config, out, wbwi>>

NextStep == DoSeekToFirst \/ DoSeekToLast \/ DoSeek \/ DoSeekForPrev \/ DoNext \/ DoPrev

Spec == Init /\ [][NextStep]_vars

-----------------------------------------------------------------------------
(* Specification with bounds: any lower and/or upper bound (or none), held *)
(* by the ReadOptions given to the iterator, by a base iterator that       *)
(* enforces them, or by both.                                              *)

InitBounds ==
  /\ base \in SUBSET Keys
  /\ delta \in [Keys -> DeltaTypes \cup {"none"}]
  /\ lower \in {NoKey} \cup Keys
  /\ upper \in {NoKey} \cup Keys
  /\ base_checks \in BOOLEAN
  /\ has_ro \in BOOLEAN
  /\ base_checks \/ has_ro
  /\ bad = {}
  /\ InitIter

SpecBounds == InitBounds /\ [][NextStep]_vars

(* Specification with an upper bound in the ReadOptions, no lower bound,   *)
(* and a base iterator that does not enforce bounds.                       *)

InitUpper ==
  /\ base \in SUBSET Keys
  /\ delta \in [Keys -> DeltaTypes \cup {"none"}]
  /\ lower = NoKey
  /\ upper \in Keys
  /\ base_checks = FALSE
  /\ has_ro = TRUE
  /\ bad = {}
  /\ InitIter

SpecUpper == InitUpper /\ [][NextStep]_vars

(* Specification with a failing base: no bounds, and at most one key of    *)
(* the base at which a read fails.                                         *)

InitErr ==
  /\ base \in SUBSET Keys
  /\ delta \in [Keys -> DeltaTypes \cup {"none"}]
  /\ lower = NoKey
  /\ upper = NoKey
  /\ base_checks = FALSE
  /\ has_ro = FALSE
  /\ bad \in {B \in SUBSET base : Cardinality(B) <= 1}
  /\ InitIter

SpecErr == InitErr /\ [][NextStep]_vars

-----------------------------------------------------------------------------
(* Scan specification: no bounds; a full scan is a SeekToFirst followed by *)
(* Next, or a SeekToLast followed by Prev, as long as the iterator is      *)
(* valid.  out collects what Valid()/key()/value() show after each call.   *)

Emit(o, s) == IF Valid(s) THEN Append(o, <<key(s), value(s)>>) ELSE o

ScanSeekToFirst ==
  /\ it' = SeekToFirst(it)
  /\ op' = <<"SeekToFirst", NoKey>>
  /\ out' = Emit(<<>>, it')
  /\ UNCHANGED <<config, wbwi>>

ScanNext ==
  /\ op[1] \in {"SeekToFirst", "Next"}
  /\ Valid(it)
  /\ it' = Next(it)
  /\ op' = <<"Next", NoKey>>
  /\ out' = Emit(out, it')
  /\ UNCHANGED <<config, wbwi>>

ScanSeekToLast ==
  /\ it' = SeekToLast(it)
  /\ op' = <<"SeekToLast", NoKey>>
  /\ out' = Emit(<<>>, it')
  /\ UNCHANGED <<config, wbwi>>

ScanPrev ==
  /\ op[1] \in {"SeekToLast", "Prev"}
  /\ Valid(it)
  /\ it' = Prev(it)
  /\ op' = <<"Prev", NoKey>>
  /\ out' = Emit(out, it')
  /\ UNCHANGED <<config, wbwi>>

NextScan == ScanSeekToFirst \/ ScanNext \/ ScanSeekToLast \/ ScanPrev

SpecScan == Init /\ [][NextScan]_vars

ForwardScanDone == op[1] \in {"SeekToFirst", "Next"} /\ ~Valid(it)

BackwardScanDone == op[1] \in {"SeekToLast", "Prev"} /\ ~Valid(it)

-----------------------------------------------------------------------------
(* Lookup specification: records are written to the batch one at a time,   *)
(* each indexed as it is written (overwrite mode off), and GetFromBatch is *)
(* called, with an empty merge context, once between two writes: a second  *)
(* call on the same batch would repeat the first.                          *)

Records == [cf : CFs, key : Keys, type : RecordTypes]

InitGet ==
  /\ base = {}
  /\ delta = [k \in Keys |-> "none"]
  /\ lower = NoKey
  /\ upper = NoKey
  /\ base_checks = FALSE
  /\ has_ro = FALSE
  /\ bad = {}
  /\ InitIter

\* The cursor w after an entry has been inserted into the skip list,
\* turning idx into idx1: it stays on the entry it was on.
CursorAfterInsert(w, idx, idx1) ==
  IF w.pos # 0 /\ idx1[w.pos] # idx[w.pos] THEN [w EXCEPT !.pos = w.pos + 1] ELSE w

Write(r) ==
  /\ Len(batch) < MaxBatch
  /\ batch' = WriteAndIndex(WB, r).data
  /\ index' = WriteAndIndex(WB, r).index
  /\ wit' = CursorAfterInsert(wit, index, index')
  /\ op' = <<"Write", NoKey>>
  /\ got' = NoOutcome
  /\ UNCHANGED <<config, it, out>>

WriteRecord == \E r \in Records : Write(r)

Lookup(cf_id, k, overwrite_key, merge_operator) ==
  /\ got = NoOutcome
  /\ got' = GetFromBatch(WB, cf_id, k, <<>>, Unassigned, overwrite_key,
                         merge_operator)
  /\ op' = <<"GetFromBatch",
             [cf_id |-> cf_id, key |-> k, overwrite_key |-> overwrite_key,
              merge_operator |-> merge_operator]>>
  /\ UNCHANGED <<config, it, out, batch, index, wit>>

DoGetFromBatch ==
  \E cf_id \in CFs, k \in Keys, overwrite_key \in BOOLEAN,
     merge_operator \in MergeOperators :
    Lookup(cf_id, k, overwrite_key, merge_operator)

NextGet == WriteRecord \/ DoGetFromBatch

SpecGet == InitGet /\ [][NextGet]_vars

(* Iterator specification: Put and Merge records are written to the batch *)
(* and a per-column-family iterator over its index is created, positioned *)
(* and stepped between the writes.  Next and Prev are called while the    *)
(* skip list iterator is valid, as the skip list requires.                *)

WritePutOrMerge ==
  \E r \in [cf : CFs, key : Keys, type : {"kPutRecord", "kMergeRecord"}] : Write(r)

IterCall(w, name, arg) ==
  /\ wit' = w
  /\ op' = <<name, arg>>
  /\ UNCHANGED <<config, it, out, batch, index, got>>

DoNewIterator == \E c \in CFs : IterCall(NewWBWIIterator(c), "NewIterator", c)

IterSeekToFirst == IterCall(WBWISeekToFirst(WB, wit), "SeekToFirst", NoKey)

IterSeekToLast == IterCall(WBWISeekToLast(WB, wit), "SeekToLast", NoKey)

IterSeek == \E k \in Keys : IterCall(WBWISeek(WB, wit, k), "Seek", k)

IterSeekForPrev ==
  \E k \in Keys : IterCall(WBWISeekForPrev(WB, wit, k), "SeekForPrev", k)

IterNext == wit.pos # 0 /\ IterCall(WBWINext(WB, wit), "Next", NoKey)

IterPrev == wit.pos # 0 /\ IterCall(WBWIPrev(WB, wit), "Prev", NoKey)

NextIter ==
  \/ WritePutOrMerge
  \/ DoNewIterator
  \/ IterSeekToFirst
  \/ IterSeekToLast
  \/ IterSeek
  \/ IterSeekForPrev
  \/ IterNext
  \/ IterPrev

SpecIter == InitGet /\ [][NextIter]_vars

(* Iterators at the ends of a column family, for every column family id of *)
(* the type: Put and Merge records of any id are written, and an iterator  *)
(* of any id is created and sent to its first or its last entry.           *)

AllCFs == 0..kMaxUint32

WriteAnyCF ==
  \E r \in [cf : AllCFs, key : Keys, type : {"kPutRecord", "kMergeRecord"}] :
    Write(r)

NewIteratorAnyCF ==
  \E c \in AllCFs : IterCall(NewWBWIIterator(c), "NewIterator", c)

NextEnds == WriteAnyCF \/ NewIteratorAnyCF \/ IterSeekToFirst \/ IterSeekToLast

SpecEnds == InitGet /\ [][NextEnds]_vars

(* Lookups in the column family of the largest id: as the lookup          *)
(* specification, with the records and the lookups in the column families *)
(* 0 and kMaxUint32.                                                      *)

EdgeCFs == {0, kMaxUint32}

WriteEdgeRecord ==
  \E r \in [cf : EdgeCFs, key : Keys, type : RecordTypes] : Write(r)

DoGetFromBatchEdge ==
  \E cf_id \in EdgeCFs, k \in Keys, overwrite_key \in BOOLEAN,
     merge_operator \in MergeOperators :
    Lookup(cf_id, k, overwrite_key, merge_operator)

NextGetEdge == WriteEdgeRecord \/ DoGetFromBatchEdge

SpecGetEdge == InitGet /\ [][NextGetEdge]_vars

(* Specification with Merge records in the delta: any base, any delta of  *)
(* Put, Merge, Delete and SingleDelete records, no bounds, any sequence   *)
(* of operations.                                                         *)

InitMerge ==
  /\ base \in SUBSET Keys
  /\ delta \in [Keys -> DeltaTypes \cup {"kMergeRecord", "none"}]
  /\ lower = NoKey
  /\ upper = NoKey
  /\ base_checks = FALSE
  /\ has_ro = FALSE
  /\ bad = {}
  /\ InitIter

SpecMerge == InitMerge /\ [][NextStep]_vars

(* Loop specification: UpdateCurrent is entered, status_ just set to OK,  *)
(* in any state of the object over any base and delta, with any upper     *)
(* bound in the ReadOptions or none, and runs one iteration of its loop   *)
(* at a time until it returns.  The loop runs on: an iteration that can   *)
(* be taken is taken.  out is the list of the places the two              *)
(* sub-iterators rested on at the iterations that did not return.         *)

InitLoop ==
  /\ base \in SUBSET Keys
  /\ delta \in [Keys -> {"kPutRecord", "kDeleteRecord", "none"}]
  /\ lower = NoKey
  /\ upper \in {NoKey} \cup Keys
  /\ base_checks = FALSE
  /\ has_ro \in BOOLEAN
  /\ bad = {}
  /\ it \in [progress : SEEK_TO_FIRST..SEEK_TO_LAST,
              current_at_base : BOOLEAN, equal_keys : BOOLEAN,
              status : {"ok"}, bpos : {NoKey} \cup base,
              dpos : {NoKey} \cup DeltaKeys, stepped_invalid : {FALSE}]
  /\ op = <<"UpdateCurrent", NoKey>>
  /\ out = <<>>
  /\ InitBatch

InLoop == op[1] = "UpdateCurrent"

Returned == op[1] = "return"

LoopIterate ==
  /\ InLoop
  /\ ~UpdateIteration(it).returned
  /\ it' = UpdateIteration(it).st
  /\ out' = Append(out, <<it.bpos, it.dpos>>)
  /\ UNCHANGED <<config, op, wbwi>>

LoopReturn ==
  /\ InLoop
  /\ UpdateIteration(it).returned
  /\ it' = UpdateIteration(it).st
  /\ op' = <<"return", NoKey>>
  /\ UNCHANGED <<config, out, wbwi>>

NextLoop == LoopIterate \/ LoopReturn

SpecLoop == InitLoop /\ [][NextLoop]_vars /\ WF_vars(NextLoop)

(* Decoder specification: batch is the buffer of a batch, any sequence of *)
(* up to MaxRep cells; GetEntryFromDataOffset is called on it, any number *)
(* of times, with offsets inside the buffer, at its end and past it, and  *)
(* with no output parameter null or with one of them null.               *)

RECURSIVE SeqsUpTo(_, _)
SeqsUpTo(S, n) ==
  IF n = 0 THEN {<<>>}
  ELSE LET T == SeqsUpTo(S, n - 1)
       IN T \cup {Append(q, x) : q \in {t \in T : Len(t) = n - 1}, x \in S}

NullChoices == {{}} \cup {{x} : x \in Outputs}

InitDecode ==
  /\ base = {}
  /\ delta = [k \in Keys |-> "none"]
  /\ lower = NoKey
  /\ upper = NoKey
  /\ base_checks = FALSE
  /\ has_ro = FALSE
  /\ bad = {}
  /\ it = NewIterator
  /\ op = <<"new", NoKey>>
  /\ out = <<>>
  /\ batch \in SeqsUpTo(Cells, MaxRep)
  /\ index = <<>>
  /\ wit = NewWBWIIterator(0)
  /\ got = NoOutcome

DoGetEntryFromDataOffset ==
  \E data_offset \in 0..(MaxRep + 1), nulls \in NullChoices :
    /\ got' = GetEntryFromDataOffset(batch, data_offset, nulls)
    /\ op' = <<"GetEntryFromDataOffset",
               [data_offset |-> data_offset, nulls |-> nulls]>>
    /\ UNCHANGED <<config, it, out, batch, index, wit>>

NextDecode == DoGetEntryFromDataOffset

SpecDecode == InitDecode /\ [][NextDecode]_vars

-----------------------------------------------------------------------------
(* The merged view: what the iterator is meant to expose. *)

InBounds(k) == (lower = NoKey \/ k >= lower) /\ (upper = NoKey \/ k < upper)

IsTombstone(k) == IsDelete(delta[k])

IsDeltaPut(k) == delta[k] = "kPutRecord"

MergedKeys == {k \in Keys : IsDeltaPut(k) \/ (k \in base /\ ~IsTombstone(k))}

MergedValue(k) == IF IsDeltaPut(k) THEN DeltaValue(k) ELSE BaseValue(k)

RECURSIVE Ascending(_)
Ascending(S) ==
  IF S = {} THEN <<>>
  ELSE LET m == MinOf(S) IN <<<<m, MergedValue(m)>>>> \o Ascending(S \ {m})

Reverse(q) == [i \in 1..Len(q) |-> q[Len(q) + 1 - i]]

\* What SeekToFirst on a new iterator, then Next until not valid, shows.
RECURSIVE CollectNext(_)
CollectNext(s) ==
  IF Valid(s) THEN <<<<key(s), value(s)>>>> \o CollectNext(Next(s)) ELSE <<>>

ForwardScan == CollectNext(SeekToFirst(NewIterator))

\* The iterator is at key t, or not valid when t is NoKey.
AtTarget(s, t) == IF t = NoKey THEN ~Valid(s) ELSE Valid(s) /\ key(s) = t

\* No operation steps a sub-iterator that is not valid.
NeverSteppedInvalid == ~it.stepped_invalid

-----------------------------------------------------------------------------
(* The mutation log of one key: what a lookup is meant to return. *)

\* The last call was GetFromBatch; its arguments.
Looked == op[1] = "GetFromBatch"

Arg == op[2]

\* Offsets of the records of b for the key k of the column family c, oldest
\* first, and newest first.
RECURSIVE OffsetsOf(_, _, _)
OffsetsOf(b, c, k) ==
  IF b = <<>> THEN <<>>
  ELSE LET r == b[Len(b)]
           rest == OffsetsOf(SubSeq(b, 1, Len(b) - 1), c, k)
       IN IF r.cf = c /\ CompareKey(c, r.key, k) = 0
            THEN Append(rest, Len(b))
            ELSE rest

NewestFirst(b, c, k) ==
  LET q == OffsetsOf(b, c, k) IN [i \in 1..Len(q) |-> q[Len(q) + 1 - i]]

\* Place, in the newest-first log, of the first record that is not a Merge;
\* 0 when every record is a Merge.
Terminator(b, log) ==
  LET T == {i \in 1..Len(log) : b[log[i]].type # "kMergeRecord"}
  IN IF T = {} THEN 0 ELSE MinOf(T)

\* The result the log stands for, merges succeeding, overwrite mode off.
LogResult(b, log) ==
  LET j == Terminator(b, log) IN
  IF log = <<>> THEN "kNotFound"
  ELSE IF j = 0 THEN "kMergeInProgress"
  ELSE IF b[log[j]].type = "kPutRecord" THEN "kFound"
  ELSE IF b[log[j]].type \in {"kDeleteRecord", "kSingleDeleteRecord"}
    THEN (IF j = 1 THEN "kDeleted" ELSE "kFound")
  ELSE "other"

\* The value the log stands for when LogResult is kFound: the Put's value,
\* or nothing after a deletion, with the operands newer than the terminator
\* appended oldest first.
LogValue(b, log) ==
  LET j == Terminator(b, log)
      existing == IF b[log[j]].type = "kPutRecord" THEN ValueAt(log[j]) ELSE NoValue
  IN existing \o [i \in 1..(j - 1) |-> log[j - i]]

\* The records of b for the key k of the column family c, alone in a batch.
OnlyRecordsOf(b, c, k) ==
  LET q == OffsetsOf(b, c, k) IN [i \in 1..Len(q) |-> b[q[i]]]

\* A sequence of offsets of OnlyRecordsOf(b, c, k) as offsets of b.
Renamed(q, offs) == [i \in 1..Len(q) |-> IF q[i] = 0 THEN 0 ELSE offs[q[i]]]

RenamedOutcome(g, offs) ==
  [g EXCEPT !.merge_context = [i \in 1..Len(g.merge_context) |->
                                 Renamed(g.merge_context[i], offs)],
            !.value = Renamed(g.value, offs),
            !.entry_value = Renamed(g.entry_value, offs),
            !.scanned = Renamed(g.scanned, offs)]

-----------------------------------------------------------------------------
(* The index entries, and the order of one column family's keys. *)

Sign(x) == IF x < 0 THEN -1 ELSE IF x > 0 THEN 1 ELSE 0

\* The entries a comparison can meet: those of the batch's records, the
\* search keys of Seek and SeekForPrev and the MIN_IN_CF sentinels, for
\* every column family a search entry is built for.
SearchCFs == 0..(MaxCF + 1)

Sentinels == {SearchEntry(NoKey, c, TRUE, TRUE) : c \in SearchCFs}

SearchKeys ==
  {SearchEntry(k, c, f, FALSE) : k \in Keys, c \in SearchCFs, f \in BOOLEAN}

RealEntries(b) == {RealEntry(b, o) : o \in 1..Len(b.data)}

AllEntries(b) == RealEntries(b) \cup SearchKeys \cup Sentinels

SameKey(b, e1, e2) ==
  /\ e1.column_family = e2.column_family
  /\ ~e1.is_min_in_cf /\ ~e2.is_min_in_cf
  /\ CompareKey(e1.column_family, EntryKey(b, e1), EntryKey(b, e2)) = 0

\* The laws of a total order.
Reflexive(b, e) == CompareEntries(b, e, e) = 0

Antisymmetric(b, e1, e2) ==
  Sign(CompareEntries(b, e1, e2)) = -Sign(CompareEntries(b, e2, e1))

ZeroOnlyIfSame(b, e1, e2) ==
  CompareEntries(b, e1, e2) = 0 =>
    (e1 = e2 \/ (SameKey(b, e1, e2) /\ e1.offset = e2.offset))

Transitive(b, e1, e2, e3) ==
  (CompareEntries(b, e1, e2) <= 0 /\ CompareEntries(b, e2, e3) <= 0) =>
    CompareEntries(b, e1, e3) <= 0

\* Both are the sentinel of one column family.
SentinelPair(e1, e2) ==
  e1.is_min_in_cf /\ e2.is_min_in_cf /\ e1.column_family = e2.column_family

\* The laws hold wherever no sentinel is compared with a sentinel of its
\* own column family.
OrdersAllButSentinelPairs ==
  \A e1, e2, e3 \in AllEntries(WB) :
    /\ ~e1.is_min_in_cf => Reflexive(WB, e1)
    /\ ~SentinelPair(e1, e2) =>
         Antisymmetric(WB, e1, e2) /\ ZeroOnlyIfSame(WB, e1, e2)
    /\ Transitive(WB, e1, e2, e3)

\* Keys of the records of the column family c.
KeysOfCF(c) == {batch[o].key : o \in {i \in 1..Len(batch) : batch[i].cf = c}}

\* The first of S in the order of c's comparator, and the last.
FirstKey(c, S) == CHOOSE x \in S : \A y \in S : CompareKey(c, x, y) <= 0

LastKey(c, S) == CHOOSE x \in S : \A y \in S : CompareKey(c, x, y) >= 0

\* The cursor w rests on the record at offset o; on none when o is 0.
RestsOn(w, o) ==
  IF o = 0 THEN ~WBWIValid(WB, w)
  ELSE WBWIValid(WB, w) /\ GetRawEntry(WB, w).offset = o

\* Offset where Seek(k) on the column family c is to rest: the oldest
\* record of the first key not before k; SeekForPrev(k): the newest record
\* of the last key not after k.
SeekTarget(c, k) ==
  LET S == {x \in KeysOfCF(c) : CompareKey(c, x, k) >= 0}
  IN IF S = {} THEN 0 ELSE OffsetsOf(batch, c, FirstKey(c, S))[1]

SeekForPrevTarget(c, k) ==
  LET S == {x \in KeysOfCF(c) : CompareKey(c, x, k) <= 0}
  IN IF S = {} THEN 0 ELSE NewestFirst(batch, c, LastKey(c, S))[1]

\* Offsets where SeekToFirst and SeekToLast on the column family c are to
\* rest: the oldest record of c's first key, the newest record of its
\* last key; 0 when c has no record.
SeekToFirstTarget(c) ==
  IF KeysOfCF(c) = {} THEN 0
  ELSE OffsetsOf(batch, c, FirstKey(c, KeysOfCF(c)))[1]

SeekToLastTarget(c) ==
  IF KeysOfCF(c) = {} THEN 0
  ELSE NewestFirst(batch, c, LastKey(c, KeysOfCF(c)))[1]

\* The record tag table: the kind of each tag that has one.
TagTable ==
  [t \in NamedTags |->
     CASE t \in {"kTypeValue", "kTypeColumnFamilyValue"} -> "kPutRecord"
       [] t \in {"kTypeDeletion", "kTypeColumnFamilyDeletion"} -> "kDeleteRecord"
       [] t \in {"kTypeSingleDeletion", "kTypeColumnFamilySingleDeletion"} ->
            "kSingleDeleteRecord"
       [] t \in {"kTypeRangeDeletion", "kTypeColumnFamilyRangeDeletion"} ->
            "kDeleteRangeRecord"
       [] t \in {"kTypeMerge", "kTypeColumnFamilyMerge"} -> "kMergeRecord"
       [] t = "kTypeLogData" -> "kLogDataRecord"
       [] OTHER -> "kXIDRecord"]

\* The last call was GetEntryFromDataOffset; the cell at its offset.
Decoded == op[1] = "GetEntryFromDataOffset"

CellAt == batch[Arg.data_offset + 1]

\* The merged view when a Merge record of the delta counts as a Put.
IsDeltaShown(k) == delta[k] = "kPutRecord" \/ delta[k] = "kMergeRecord"

ShownKeys == {k \in Keys : IsDeltaShown(k) \/ (k \in base /\ ~IsTombstone(k))}

-----------------------------------------------------------------------------
(* Claims *)

\* C1: whenever the iterator is valid, after any sequence of seeks and
\* steps, its key is not a key for which the delta holds a Delete or
\* SingleDelete record.
C1_TombstoneCompleteness == Valid(it) => ~IsTombstone(key(it))

\* C2: whenever the iterator is valid, after any sequence of seeks and
\* steps, its key lies within the bounds: lower <= key < upper.
C2_KeyWithinBounds == Valid(it) => InBounds(key(it))

C5_MonotonicSteps ==
  [][/\ (op'[1] = "Next" /\ Valid(it) /\ Valid(it')) => key(it') > key(it)
     /\ (op'[1] = "Prev" /\ Valid(it) /\ Valid(it')) => key(it') < key(it)]_vars

\* C6: from any valid position, if the merged view has an entry after the
\* current key then Next followed by Prev ends valid at the original key
\* and value; if it has an entry before, Prev followed by Next does.
C6_FlipRoundTrip ==
  Valid(it) =>
    /\ (\E k \in MergedKeys : k > key(it)) =>
         LET s == Prev(Next(it))
         IN Valid(s) /\ key(s) = key(it) /\ value(s) = value(it)
    /\ (\E k \in MergedKeys : k < key(it)) =>
         LET s == Next(Prev(it))
         IN Valid(s) /\ key(s) = key(it) /\ value(s) = value(it)

\* C7: whenever the iterator is valid at a key the delta holds as a Put,
\* its value is the delta's value for the key, after any sequence of seeks
\* and steps.
C7_DeltaPrecedence ==
  (Valid(it) /\ IsDeltaPut(key(it))) => value(it) = DeltaValue(key(it))

\* C8: with no bounds and from any prior state, Seek(K) leaves the iterator
\* at the smallest merged-view key >= K, and SeekForPrev(K) at the largest
\* merged-view key <= K; not valid when there is no such key.
C8_SeekTargets ==
  /\ op[1] = "Seek" => AtTarget(it, FirstGE(MergedKeys, op[2]))
  /\ op[1] = "SeekForPrev" => AtTarget(it, LastLE(MergedKeys, op[2]))

C8_Witness ==
  /\ op[1] = "Seek"
  /\ op[2] \in base
  /\ IsTombstone(op[2])
  /\ Valid(it)
  /\ key(it) > op[2]
  /\ ~it.current_at_base

C10_SeekIdempotent == op[1] = "Seek" => Seek(it, op[2]) = it

C10_Witness ==
  /\ op[1] = "Seek"
  /\ Valid(it)
  /\ it.equal_keys
  /\ \E k \in Keys : k >= op[2] /\ k < key(it) /\ IsTombstone(k)

\* C11: a Next or Prev called while the iterator is not valid sets its
\* status to NotSupported and changes nothing else; the iterator is not
\* valid after the call, so that any further Next or Prev does the same,
\* until a seek is called.
C11_StepOnInvalid ==
  [][(op'[1] \in {"Next", "Prev"} /\ ~Valid(it)) =>
       /\ it' = [it EXCEPT !.status = "NotSupported"]
       /\ status(it') = "NotSupported"
       /\ ~Valid(it')
       /\ ~Valid(Next(it')) /\ ~Valid(Prev(it'))]_vars

C11_Witness ==
  /\ op[1] = "Prev"
  /\ it.status = "NotSupported"
  /\ it.progress = SEEK
  /\ it.bpos = NoKey
  /\ it.dpos = NoKey
  /\ base # {}

\* C12: in every state left by a seek or a step in which the base or the
\* delta iterator reports an error, the iterator is not valid and status()
\* is an error; status() is the iterator's own status when that is an
\* error, else the base's when that is an error, else the delta's.
C12_SubIteratorErrors ==
  /\ (BaseIterStatus(it.bpos) # "ok" \/ DeltaIterStatus # "ok") =>
       ~Valid(it) /\ status(it) # "ok"
  /\ status(it) = (IF it.status # "ok" THEN it.status
                   ELSE IF BaseIterStatus(it.bpos) # "ok"
                     THEN BaseIterStatus(it.bpos)
                     ELSE DeltaIterStatus)

C12_Witness ==
  /\ op[1] = "Next"
  /\ it.status = "ok"
  /\ BaseIterStatus(it.bpos) = "IOError"
  /\ it.dpos # NoKey
  /\ IsDeltaPut(it.dpos)
  /\ status(it) = "IOError"

C12_WitnessOwn ==
  /\ op[1] = "Next"
  /\ it.status = "NotSupported"
  /\ BaseIterStatus(it.bpos) = "IOError"

\* C13: with overwrite_key false and a merge operator that succeeds,
\* GetFromBatch returns NotFound when the batch has no record for the key
\* in the column family; otherwise, reading the key's records newest first:
\* Found if the first record that is not a Merge is a Put, Found if it is a
\* Delete or SingleDelete with a newer Merge, Deleted if the newest record
\* is a Delete or SingleDelete, MergeInProgress if every record is a Merge.
C13_ReverseOrderLookup ==
  (Looked /\ ~Arg.overwrite_key /\ Arg.merge_operator = "ok") =>
    LET log == NewestFirst(batch, Arg.cf_id, Arg.key)
    IN LogResult(batch, log) # "other" => got.result = LogResult(batch, log)

C13_Witness ==
  /\ Looked /\ ~Arg.overwrite_key /\ Arg.merge_operator = "ok"
  /\ Len(batch) = 3
  /\ \A i \in 1..3 : batch[i].cf = Arg.cf_id /\ batch[i].key = Arg.key
  /\ batch[1].type = "kPutRecord"
  /\ batch[2].type = "kDeleteRecord"
  /\ batch[3].type = "kMergeRecord"
  /\ got.result = "kFound"

\* C14: when GetFromBatch with overwrite_key false returns Found, the value
\* is the newest Put's value if no Merge is newer than it; otherwise it is
\* the merge operator applied to the Put's value (to no value when the scan
\* ended at a Delete or SingleDelete) and exactly the operands of the Merge
\* records newer than that record; no older operand contributes.
C14_MergedValue ==
  (Looked /\ ~Arg.overwrite_key /\ got.result = "kFound") =>
    got.value = LogValue(batch, NewestFirst(batch, Arg.cf_id, Arg.key))

C14_Witness ==
  /\ Looked /\ ~Arg.overwrite_key /\ got.result = "kFound"
  /\ Len(batch) = 3
  /\ \A i \in 1..3 : batch[i].cf = Arg.cf_id /\ batch[i].key = Arg.key
  /\ batch[1].type = "kMergeRecord"
  /\ batch[2].type = "kPutRecord"
  /\ batch[3].type = "kMergeRecord"
  /\ got.value = <<2, 3>>

\* C15: with overwrite_key true, when the newest record for the key is a
\* Merge, GetFromBatch returns MergeInProgress with that one operand
\* pushed, its scan looks at no older record of the key and MergeKey is not
\* called, whatever older records there are; when the newest record is a
\* Put, a Delete or a SingleDelete the outcome is that of the call with
\* overwrite_key false.
C15_OverwriteStopsAtMerge ==
  (Looked /\ Arg.overwrite_key) =>
    LET log == NewestFirst(batch, Arg.cf_id, Arg.key) IN
    log # <<>> =>
      /\ batch[log[1]].type = "kMergeRecord" =>
           /\ got.result = "kMergeInProgress"
           /\ got.merge_context = <<ValueAt(log[1])>>
           /\ got.scanned = <<log[1]>>
           /\ got.merge_calls = 0
           /\ got.status = "ok"
      /\ batch[log[1]].type \in {"kPutRecord", "kDeleteRecord", "kSingleDeleteRecord"} =>
           /\ got = GetFromBatch(WB, Arg.cf_id, Arg.key, <<>>, Unassigned,
                                 FALSE, Arg.merge_operator)
           /\ got.result =
                (IF batch[log[1]].type = "kPutRecord" THEN "kFound" ELSE "kDeleted")

C15_Witness ==
  /\ Looked /\ Arg.overwrite_key
  /\ Len(batch) = 3
  /\ \A i \in 1..3 : batch[i].cf = Arg.cf_id /\ batch[i].key = Arg.key
  /\ batch[1].type = "kPutRecord"
  /\ batch[2].type = "kMergeRecord"
  /\ batch[3].type = "kMergeRecord"
  /\ got.result = "kMergeInProgress"
  /\ Len(got.merge_context) = 1

\* C16: for every call of GetFromBatch the Result is Error exactly when the
\* Status is not OK; a merge that fails after a Put or a deletion ended the
\* scan gives Error with the status of the failure, and Found, Deleted,
\* NotFound and MergeInProgress all come with an OK status.
C16_ResultStatusAgree ==
  Looked =>
    /\ (got.result = "kError") <=> (got.status # "ok")
    /\ got.result \in {"kFound", "kDeleted", "kNotFound", "kMergeInProgress", "kError"}
    /\ (got.merge_calls > 0 /\ Arg.merge_operator = "fails") =>
         got.result = "kError" /\ got.status = "Corruption"

C16_Witness ==
  /\ Looked /\ Arg.merge_operator = "fails" /\ ~Arg.overwrite_key
  /\ got.result = "kError"
  /\ got.status = "Corruption"
  /\ got.merge_calls = 1
  /\ got.entry_value # NoValue

\* C17: the outcome of GetFromBatch for a key of a column family (Result,
\* value, operands, status) is the outcome of the same call on the batch
\* that holds only the records of that column family whose key equals the
\* key under its comparator, in the same order: records of other keys and
\* of other column families, wherever they lie, change nothing.
C17_LookupIsolation ==
  Looked =>
    got = RenamedOutcome(
            GetFromBatch(BatchOf(OnlyRecordsOf(batch, Arg.cf_id, Arg.key)),
                         Arg.cf_id,
                         Arg.key, <<>>, Unassigned, Arg.overwrite_key,
                         Arg.merge_operator),
            OffsetsOf(batch, Arg.cf_id, Arg.key))

C17_Witness ==
  /\ Looked
  /\ Len(batch) = 3
  /\ batch[2].cf = Arg.cf_id /\ batch[2].key = Arg.key
  /\ batch[1].cf # Arg.cf_id /\ batch[1].key = Arg.key
  /\ batch[3].cf = Arg.cf_id /\ batch[3].key # Arg.key
  /\ batch[3].type = "kPutRecord"
  /\ batch[2].type = "kDeleteRecord"
  /\ got.result = "kDeleted"

\* C18: the entry comparator is a total order over all index entries, those
\* of records, search keys with offset 0 or MAX and MIN_IN_CF sentinels
\* alike: compare(b, a) has the sign opposite to compare(a, b),
\* compare(a, a) = 0, compare is transitive, and compare(a, b) = 0 only
\* when a and b have the same column family, equal keys and equal offsets.
C18_ComparatorTotalOrder ==
  \A e1, e2, e3 \in AllEntries(WB) :
    /\ Reflexive(WB, e1)
    /\ Antisymmetric(WB, e1, e2)
    /\ ZeroOnlyIfSame(WB, e1, e2)
    /\ Transitive(WB, e1, e2, e3)

\* C19: of two entries of records of the same column family with equal
\* keys, the one written earlier compares smaller; so in the index the
\* entries of one key lie together, oldest first, and a per-column-family
\* iterator that steps from one entry of a key to another of the same key
\* goes to the next newer one with Next and to the next older one with
\* Prev.
C19_SameKeyInsertionOrder ==
  [][/\ \A e1, e2 \in RealEntries(WB') :
          (SameKey(WB', e1, e2) /\ e1.offset < e2.offset) =>
            CompareEntries(WB', e1, e2) < 0
     /\ \A i, j \in 1..Len(index') :
          (i < j /\ SameKey(WB', index'[i], index'[j])) =>
            /\ index'[i].offset < index'[j].offset
            /\ \A m \in i..j : SameKey(WB', index'[i], index'[m])
     /\ (op'[1] \in {"Next", "Prev"} /\ WBWIValid(WB, wit) /\ WBWIValid(WB', wit')
         /\ SameKey(WB, GetRawEntry(WB, wit), GetRawEntry(WB', wit'))) =>
          LET q == OffsetsOf(batch, wit.column_family_id, WBWIEntry(WB, wit).key)
              o == GetRawEntry(WB, wit).offset
              o1 == GetRawEntry(WB', wit').offset
          IN \E n \in 1..(Len(q) - 1) :
               IF op'[1] = "Next" THEN q[n] = o /\ q[n + 1] = o1
                                  ELSE q[n] = o1 /\ q[n + 1] = o]_vars

C19_Witness ==
  /\ op[1] = "Prev"
  /\ WBWIValid(WB, wit)
  /\ wit.column_family_id = 1
  /\ GetRawEntry(WB, wit).offset = 1
  /\ Len(batch) = 3
  /\ batch[3].cf = 1 /\ batch[3].key = batch[1].key
  /\ batch[2].cf = 1 /\ batch[2].key # batch[1].key

\* C20: on the per-column-family iterator of the column family c, Seek(K)
\* rests on the oldest record of the smallest key >= K of c, and
\* SeekForPrev(K) on the newest record of the largest key <= K of c, in the
\* order of c's comparator; when c has no such key the iterator is not
\* valid, whatever other column families hold.
C20_PerCFSeekTargets ==
  /\ op[1] = "Seek" => RestsOn(wit, SeekTarget(wit.column_family_id, op[2]))
  /\ op[1] = "SeekForPrev" =>
       RestsOn(wit, SeekForPrevTarget(wit.column_family_id, op[2]))

C20_Witness ==
  /\ op[1] = "Seek"
  /\ wit.column_family_id = 0
  /\ Len(batch) = 3
  /\ batch[1].cf = 1
  /\ batch[2].cf = 0 /\ batch[2].key > op[2]
  /\ batch[3].cf = 0 /\ batch[3].key = batch[2].key
  /\ RestsOn(wit, 2)

C20_WitnessOtherCF ==
  /\ op[1] = "SeekForPrev"
  /\ wit.column_family_id = 1
  /\ wit.pos # 0
  /\ ~WBWIValid(WB, wit)

\* C21: on the per-column-family iterator of the column family c, for every
\* id c of the type, the largest included, SeekToFirst rests on the oldest
\* record of c's smallest key and SeekToLast on the newest record of c's
\* largest key; the iterator is not valid when c has no record.
C21_PerCFEnds ==
  /\ op[1] = "SeekToFirst" =>
       RestsOn(wit, SeekToFirstTarget(wit.column_family_id))
  /\ op[1] = "SeekToLast" =>
       RestsOn(wit, SeekToLastTarget(wit.column_family_id))

\* The same for the ids whose successor is an id: all but the largest.
C21_EndsBelowLargest ==
  wit.column_family_id # kMaxUint32 => C21_PerCFEnds

C21_WitnessBelowLargest ==
  /\ op[1] = "SeekToLast"
  /\ wit.column_family_id = MaxCF
  /\ Len(batch) = 3
  /\ batch[1].cf = MaxCF /\ batch[2].cf = MaxCF /\ batch[2].key = batch[1].key
  /\ batch[3].cf = kMaxUint32
  /\ RestsOn(wit, 2)

\* C22: a record that is read from the buffer is given the kind the record
\* tag table gives its tag, with status OK; a tag the table does not hold
\* gives Corruption and no kind.
C22_TagTable ==
  (Decoded /\ got.read /\ CellAt.readable) =>
    IF CellAt.tag \in DOMAIN TagTable
      THEN got.status = "ok" /\ got.type = TagTable[CellAt.tag]
      ELSE got.status = "Corruption" /\ got.type = TypeUnassigned

C22_Witness ==
  /\ Decoded /\ got.read
  /\ Arg.data_offset = 1
  /\ CellAt = [tag |-> "kTypeBeginPersistedPrepareXID", readable |-> TRUE]
  /\ got.type = "kXIDRecord"

C22_WitnessOtherTag ==
  /\ Decoded /\ got.read
  /\ CellAt = [tag |-> "kTypeBlobIndex", readable |-> TRUE]
  /\ got.status = "Corruption"

\* C23: GetEntryFromDataOffset returns InvalidArgument when an output
\* parameter is null, whatever the offset; otherwise NotFound when the
\* offset is the size of the buffer and InvalidArgument when it is larger;
\* a record is read only at an offset below the size; and a call leaves
\* the buffer as it was, so that the outcome of a call depends on the
\* buffer and the arguments only, not on the calls before it.
C23_Outcome ==
  Decoded =>
    /\ Arg.nulls # {} => got = NotDecoded("InvalidArgument")
    /\ (Arg.nulls = {} /\ Arg.data_offset = Len(batch)) =>
         got = NotDecoded("NotFound")
    /\ (Arg.nulls = {} /\ Arg.data_offset > Len(batch)) =>
         got = NotDecoded("InvalidArgument")
    /\ (Arg.nulls = {} /\ Arg.data_offset < Len(batch)) =>
         /\ got.read
         /\ got.status \in {"ok", "Corruption"}
         /\ got.status = "ok" <=>
              (CellAt.readable /\ CellAt.tag \in NamedTags)

C23_DecoderBoundaries ==
  [][Decoded' => (batch' = batch /\ C23_Outcome')]_vars

C23_Witness ==
  /\ Decoded
  /\ Len(batch) = 2
  /\ Arg.nulls = {} /\ Arg.data_offset = 2
  /\ got.status = "NotFound"

C23_WitnessNull ==
  /\ Decoded
  /\ Len(batch) = 2
  /\ Arg.nulls = {"blob"} /\ Arg.data_offset = 2
  /\ got.status = "InvalidArgument"

\* C24: in every state a seek, Next or Prev leaves with the iterator valid:
\* moving forward, the base is current only when its key is not after the
\* delta's or the delta is exhausted, and the delta only when its key is
\* not after the base's or the base is exhausted; moving backward the same
\* with the order reversed; and when both sub-iterators are valid
\* equal_keys tells whether their keys are equal.
C24_Settled(base_valid, delta_valid) ==
  LET ahead == IF IsMovingForward(it) THEN Compare(Entry(it.dpos).key, it.bpos)
                                      ELSE Compare(it.bpos, Entry(it.dpos).key)
  IN
  /\ (it.current_at_base /\ delta_valid) => ahead >= 0
  /\ (~it.current_at_base /\ base_valid) => ahead <= 0
  /\ (base_valid /\ delta_valid) =>
       (it.equal_keys <=> Entry(it.dpos).key = it.bpos)

C24_WitnessEqual ==
  /\ op[1] = "Seek" /\ Valid(it)
  /\ BaseValid(it) /\ DeltaValid(it)
  /\ it.equal_keys /\ ~it.current_at_base

\* What a step returns to the caller: Valid(), status() and, when valid,
\* key() and value().
StepResult(s) ==
  IF Valid(s) THEN <<TRUE, status(s), key(s), value(s)>>
              ELSE <<FALSE, status(s)>>

\* C25: in the state SeekToFirst leaves, valid with one sub-iterator valid
\* and the other not, the first Prev, which does not re-seek the side that
\* is not valid, returns what it would return if it re-seeked that side to
\* its last entry, as it does after any other seek; and so the first Next
\* after SeekToLast, with a re-seek to the first entry.
C25_TerminalSeekExhaustion ==
  (Valid(it) /\ BaseValid(it) # DeltaValid(it)) =>
    /\ op[1] = "SeekToFirst" =>
         StepResult(Prev(it)) = StepResult(Prev([it EXCEPT !.progress = SEEK]))
    /\ op[1] = "SeekToLast" =>
         StepResult(Next(it)) =
           StepResult(Next([it EXCEPT !.progress = SEEK_FOR_PREV]))

\* C26: whenever a seek or a step returns with the base not valid and the
\* delta resting on a key at or above iterate_upper_bound, the state in
\* which UpdateCurrent stops at its upper bound test, the iterator is not
\* valid, in either direction and whatever current_at_base was.
C26_DeltaOnlyUpperBound ==
  (/\ op[1] # "new"
   /\ it.status = "ok"
   /\ ~BaseValid(it)
   /\ it.dpos # NoKey
   /\ iterate_upper_bound # NoKey
   /\ Compare(Entry(it.dpos).key, iterate_upper_bound) >= 0) => ~Valid(it)

\* C27: every assertion of AssertInvariants holds in every state a seek or
\* a step leaves with both sub-iterators' statuses OK, the iterator valid
\* and both sub-iterators valid.
C27_AssertionsHold ==
  (/\ op[1] # "new"
   /\ BaseIterStatus(it.bpos) = "ok" /\ DeltaIterStatus = "ok"
   /\ Valid(it) /\ BaseValid(it) /\ DeltaValid(it)) => AssertInvariants(it)

\* The assertions that are evaluated when one of the two sub-iterators is
\* not valid, or one of the statuses is not OK, hold.
C27_AssertionsOnOneSide ==
  (op[1] # "new" /\ ~(Valid(it) /\ BaseValid(it) /\ DeltaValid(it))) =>
    AssertInvariants(it)

\* q is one step ahead of p among the keys S, in the direction of travel:
\* the nearest key of S beyond p, or no key when there is none.
OneStepAhead(S, p, q, forward) ==
  LET beyond == {x \in S : IF forward THEN x > p ELSE x < p}
  IN /\ p # NoKey
     /\ IF beyond = {} THEN q = NoKey
        ELSE q \in beyond /\ \A x \in beyond : IF forward THEN q <= x ELSE q >= x

\* C28: UpdateCurrent returns: every iteration of its loop that does not
\* return leaves each sub-iterator where it was or one step ahead in the
\* direction of travel, and moves at least one of them; and the loop, in
\* whatever state it is entered, comes to a return.
C28_IterationMovesAhead ==
  (InLoop /\ InLoop') =>
    LET base_ahead == OneStepAhead(BaseVisible, it.bpos, it'.bpos,
                                   IsMovingForward(it))
        delta_ahead == OneStepAhead(DeltaKeys, it.dpos, it'.dpos,
                                    IsMovingForward(it))
    IN /\ it'.bpos = it.bpos \/ base_ahead
       /\ it'.dpos = it.dpos \/ delta_ahead
       /\ base_ahead \/ delta_ahead
       /\ it'.progress = it.progress

C28_UpdateCurrentTerminates ==
  [][C28_IterationMovesAhead]_vars /\ <>Returned

C28_Witness ==
  /\ Returned
  /\ IsMovingBackward(it)
  /\ out = <<(<<3, 3>>), (<<2, 2>>), (<<1, 1>>)>>
  /\ ~Valid(it)

C28_WitnessDeltaOnly ==
  /\ Returned
  /\ IsMovingForward(it)
  /\ out = <<(<<NoKey, 1>>), (<<NoKey, 2>>)>>
  /\ Valid(it) /\ key(it) = 3

C30_UnexpectedRecord ==
  Looked =>
    \A i \in 1..Len(got.scanned) :
      batch[got.scanned[i]].type = "kDeleteRangeRecord" =>
        /\ i = Len(got.scanned)
        /\ got.result = "kError"
        /\ got.status = "Corruption"
        /\ got.merge_context = [n \in 1..(i - 1) |-> ValueAt(got.scanned[n])]
        /\ got.merge_calls = 0
        /\ got.value = Unassigned

\* The scan comes to a DeleteRange record of the key whenever every newer
\* record of the key is a Merge and overwrite_key has not stopped the scan
\* at the newest of them.
C30_ScanReaches ==
  Looked =>
    LET log == NewestFirst(batch, Arg.cf_id, Arg.key)
        j == Terminator(batch, log)
    IN (/\ j # 0
        /\ batch[log[j]].type = "kDeleteRangeRecord"
        /\ j = 1 \/ ~Arg.overwrite_key) => got.scanned = SubSeq(log, 1, j)

C30_Witness ==
  /\ Looked /\ ~Arg.overwrite_key /\ Arg.merge_operator = "ok"
  /\ Len(batch) = 3
  /\ \A i \in 1..3 : batch[i].cf = Arg.cf_id /\ batch[i].key = Arg.key
  /\ batch[1].type = "kPutRecord"
  /\ batch[2].type = "kDeleteRangeRecord"
  /\ batch[3].type = "kMergeRecord"
  /\ got.scanned = <<3, 2>>
  /\ got.result = "kError"
  /\ Len(got.merge_context) = 1

\* C31: what a seek returns to the caller (Valid(), status(), key() and
\* value()) is the same on the iterator in any state it has been brought to
\* by seeks and steps as on a newly constructed iterator over the same
\* base, delta and bounds.
C31_SeekHistoryIndependent ==
  /\ StepResult(SeekToFirst(it)) = StepResult(SeekToFirst(NewIterator))
  /\ StepResult(SeekToLast(it)) = StepResult(SeekToLast(NewIterator))
  /\ \A k \in Keys :
       /\ StepResult(Seek(it, k)) = StepResult(Seek(NewIterator, k))
       /\ StepResult(SeekForPrev(it, k)) = StepResult(SeekForPrev(NewIterator, k))

-----------------------------------------------------------------------------
(* Handle specification: one WriteBatchWithIndexInternal object, made for  *)
(* the column family HandleCF, is used for several lookups through the     *)
(* GetFromBatch overload that passes its own merge_context_, while records *)
(* are written to the batch.  The member merge_context_ is what the last   *)
(* call left in it; the constructors leave it empty.                       *)

\* The column family the object was constructed with.
HandleCF == 0

\* The member merge_context_ of the object.
merge_context_ == IF got = NoOutcome THEN <<>> ELSE got.merge_context

\* The object has been used for a call.
HandleUsed == op[1] # "new"

\* A record is written to the batch; the object is not touched.  op[2]
\* keeps the arguments of the object's last call.
HandleWrite(r) ==
  /\ Len(batch) < MaxBatch
  /\ batch' = WriteAndIndex(WB, r).data
  /\ index' = WriteAndIndex(WB, r).index
  /\ wit' = CursorAfterInsert(wit, index, index')
  /\ op' = IF HandleUsed THEN <<"Write", op[2]>> ELSE op
  /\ UNCHANGED <<config, it, out, got>>

\* The records written are those of the object's column family.
HandleRecords == {r \in Records : r.cf = HandleCF}

HandleWriteRecord == \E r \in HandleRecords : HandleWrite(r)

\* GetFromBatch(batch, key, value, overwrite_key, s) on the object.  The
\* merge operator is the one of the object's column family, the same at
\* every call; calls stop once merge_context_ holds MaxBatch operands.
HandleLookup(k, overwrite_key, merge_operator) ==
  /\ Len(merge_context_) < MaxBatch
  /\ HandleUsed => merge_operator = op[2].merge_operator
  /\ got' = GetFromBatch(WB, HandleCF, k, merge_context_, Unassigned,
                         overwrite_key, merge_operator)
  /\ op' = <<"GetFromBatch",
             [cf_id |-> HandleCF, key |-> k, overwrite_key |-> overwrite_key,
              merge_operator |-> merge_operator]>>
  /\ UNCHANGED <<config, it, out, batch, index, wit>>

DoHandleGetFromBatch ==
  \E k \in Keys, overwrite_key \in BOOLEAN, merge_operator \in MergeOperators :
    HandleLookup(k, overwrite_key, merge_operator)

NextHandle == HandleWriteRecord \/ DoHandleGetFromBatch

SpecHandle == InitGet /\ [][NextHandle]_vars

\* The same call on an object that has just been constructed.
FreshLookup ==
  GetFromBatch(WB, Arg.cf_id, Arg.key, <<>>, Unassigned, Arg.overwrite_key,
               Arg.merge_operator)

\* C32: a lookup on an object that has been used before returns the Result
\* and the value that the same call returns on a newly constructed object.
C32_LookupsIndependent ==
  Looked =>
    /\ got.result = FreshLookup.result
    /\ got.value = FreshLookup.value

-----------------------------------------------------------------------------
(* Specification with Invalidate: the iterator over a base that may fail   *)
(* is moved by seeks and steps and invalidated by its owner.  out holds    *)
(* the iterator's own status_ as the last operation found it.              *)

\* The statuses handed to Invalidate.
InvalidateStatuses == {"Aborted", "Corruption"}

\* One operation on the iterator, leaving it as s1.
Operate(name, arg, s1) ==
  /\ it' = s1
  /\ op' = <<name, arg>>
  /\ out' = <<it.status>>
  /\ UNCHANGED <<config, wbwi>>

OwnSeekToFirst == Operate("SeekToFirst", NoKey, SeekToFirst(it))

OwnSeekToLast == Operate("SeekToLast", NoKey, SeekToLast(it))

OwnSeek == \E k \in Keys : Operate("Seek", k, Seek(it, k))

OwnSeekForPrev == \E k \in Keys : Operate("SeekForPrev", k, SeekForPrev(it, k))

OwnNext == Operate("Next", NoKey, Next(it))

OwnPrev == Operate("Prev", NoKey, Prev(it))

DoInvalidate ==
  \E st \in InvalidateStatuses : Operate("Invalidate", NoKey, Invalidate(it, st))

NextOwn ==
  \/ OwnSeekToFirst \/ OwnSeekToLast \/ OwnSeek \/ OwnSeekForPrev
  \/ OwnNext \/ OwnPrev \/ DoInvalidate

SpecOwn == InitErr /\ [][NextOwn]_vars

\* The last operation was one of the four seeks.
Sought == op[1] \in {"SeekToFirst", "SeekToLast", "Seek", "SeekForPrev"}

\* The status of the sub-iterators: the base's when it is not OK, else the
\* delta's.
SubIteratorStatus(s) ==
  IF BaseIterStatus(s.bpos) # "ok" THEN BaseIterStatus(s.bpos) ELSE DeltaIterStatus

\* Validity as the positions decide it.
ValidByPosition(s) == IF s.current_at_base THEN BaseValid(s) ELSE DeltaValid(s)

\* C33: after any of the four seeks the iterator's own status is OK,
\* whatever it was before (NotSupported from a step on an invalid iterator,
\* or what Invalidate was given): status() is the sub-iterators' status and
\* Valid() is decided by the positions.
C33_SeekClearsOwnStatus ==
  Sought =>
    /\ it.status = "ok"
    /\ status(it) = SubIteratorStatus(it)
    /\ Valid(it) = ValidByPosition(it)

\* A seek has found the status left by a step on an invalid iterator and
\* ended on an entry.
C33_Witness ==
  /\ Sought
  /\ out = <<"NotSupported">>
  /\ Valid(it)

\* A seek has found a status left by Invalidate; the base reports an error
\* where the seek ended.
C33_WitnessInvalidate ==
  /\ Sought
  /\ out = <<"Aborted">>
  /\ status(it) = "IOError"

-----------------------------------------------------------------------------
\* The record the scan of the last call ended at.
LastScanned == batch[got.scanned[Len(got.scanned)]]

\* The bytes a call that returns Found puts in *value: the Put's, or, when
\* operands were collected, the merge of the Put's value (of no value after
\* a deletion) with them.
FoundBytes ==
  LET existing == IF LastScanned.type = "kPutRecord"
                    THEN ValueAt(got.scanned[Len(got.scanned)])
                    ELSE NoValue
  IN IF got.merge_context = <<>>
       THEN existing
       ELSE existing \o Concat(GetOperands(got.merge_context))

\* C34: GetFromBatch leaves *value as the caller passed it when it returns
\* NotFound, Deleted or MergeInProgress, and when it returns Found *value
\* has been assigned the Put's bytes or the merged bytes.
C34_ValueOnlyOnFound ==
  Looked =>
    /\ got.result \in {"kNotFound", "kDeleted", "kMergeInProgress"} =>
         got.value = Unassigned
    /\ got.result = "kFound" =>
         got.value # Unassigned /\ got.value = FoundBytes

\* A call has returned Deleted past an older Put of the key and left *value
\* alone.
C34_Witness ==
  /\ Looked /\ got.result = "kDeleted" /\ got.value = Unassigned
  /\ Len(batch) = 2
  /\ \A i \in 1..2 : batch[i].cf = Arg.cf_id /\ batch[i].key = Arg.key
  /\ batch[1].type = "kPutRecord"

\* A call has returned MergeInProgress with operands collected and left
\* *value alone.
C34_WitnessMergeInProgress ==
  /\ Looked /\ got.result = "kMergeInProgress" /\ got.value = Unassigned
  /\ Len(got.merge_context) = 2

\* A call has returned Found with merged bytes.
C34_WitnessFound ==
  /\ Looked /\ got.result = "kFound" /\ got.merge_calls = 1
  /\ got.value = <<1, 2>>

====
